---- MODULE Spec2Model ----
(***************************************************************************)
(* Service layer of the expense tracker: the categories and expenses      *)
(* tables and the CategoryService / ExpenseService operations on them.    *)
(* Every service call runs in the request's own session (get_db), so a    *)
(* call is one atomic step that either commits or leaves the store as it  *)
(* was.                                                                    *)
(*                                                                         *)
(* Values.  A Python value that may be None is an option: None is <<>>,   *)
(* a present value v is <<v>>.  Every column but the primary key holds an *)
(* option, so that a row about to be written can carry None in a NOT NULL *)
(* column and be refused by the store.  Amounts are in cents (the schema  *)
(* admits two decimal places), dates are day numbers.                     *)
(***************************************************************************)
EXTENDS Integers, FiniteSets, Sequences, TLC

VARIABLES
    categories,  \* the rows of table "categories"
    expenses,    \* the rows of table "expenses"
    today,       \* date.today(), a day number
    last,        \* the service call that ran last: operation, arguments, outcome
    old,         \* the two tables as they were when that call started
    inflight     \* the requests being served side by side, each with its place

vars == <<categories, expenses, today, last, old, inflight>>

\* ------------------------------------------------------------- bounds
MaxCatId == 2
MaxExpId == 2
MaxDay == 1
MaxTotal == 25

\* ------------------------------------------------------------- values
None == <<>>
Some(v) == <<v>>
Val(o) == o[1]
Opt(S) == {None} \cup {Some(v) : v \in S}

Max(S) == CHOOSE m \in S : \A x \in S : x <= m

\* The ids a call is addressed to. A table holds rows for some of them only,
\* so each is also the id of a missing row in some states.
CategoryIds == 1 .. MaxCatId
ExpenseIds == 1 .. MaxExpId
\* An id no category ever gets (test_services.py uses 9999 the same way).
MissingId == 9999
\* The category ids an expense payload may carry.
CategoryRefs == CategoryIds \cup {MissingId}

\* ------------------------------------------------------------- the store
\* Column id: Integer primary key, autoincrement. On the SQLite store the
\* application configures this is the rowid: one more than the largest id
\* in the table.
NextId(table) == IF table = {} THEN 1 ELSE Max({r.id : r \in table}) + 1

\* AsyncSession.get(Entity, id): the row with that primary key, or nothing.
db_get(table, id) == {r \in table : r.id = id}

\* Category(**category_data.model_dump())
Category(id, data) ==
    [id |-> id, name |-> data.name, description |-> data.description,
     icon |-> data.icon, color |-> data.color]

\* Mutant: the notes are not taken over from the payload.
Expense_notes_dropped(id, data) ==
    [id |-> id, amount |-> data.amount, description |-> data.description,
     expense_date |-> data.expense_date, category_id |-> data.category_id,
     notes |-> None]

\* Expense(**expense_data.model_dump())
Expense(id, data) ==
    [id |-> id, amount |-> data.amount, description |-> data.description,
     expense_date |-> data.expense_date, category_id |-> data.category_id,
     notes |-> data.notes]

\* Mutant: a relationship that brings no expense along with its category.
Category_expenses_none(exps, category) == {}

\* Mutant: a relationship without its join condition, which brings every
\* expense along.
Category_expenses_all(exps, category) == exps

\* Category.expenses: the relationship loaded with the category (selectin),
\* cascade "all, delete-orphan".
Category_expenses(exps, category) ==
    {e \in exps : e.category_id = Some(category.id)}

\* Mutant: a table "categories" without the unique index on name.
CategoryConstraints_not_unique(cats) ==
    /\ \A a, b \in cats : a.id = b.id => a = b
    /\ \A c \in cats : c.name # None

\* What table "categories" accepts: primary key, name NOT NULL and UNIQUE.
CategoryConstraints(cats) ==
    /\ \A a, b \in cats : a.id = b.id => a = b
    /\ \A c \in cats : c.name # None
    /\ \A a, b \in cats : a.name = b.name => a = b

\* What table "expenses" accepts: primary key and the NOT NULL columns. The
\* foreign key is declared but the engine is never told to enforce it.
ExpenseConstraints(exps) ==
    /\ \A a, b \in exps : a.id = b.id => a = b
    /\ \A e \in exps :
          /\ e.amount # None
          /\ e.description # None
          /\ e.expense_date # None
          /\ e.category_id # None

\* An outcome of a service call: what it raised ("ok" when it returned), and
\* the tables it leaves.
Outcome(result, detail, id, cats, exps) ==
    [result |-> result, detail |-> detail, id |-> id,
     categories |-> cats, expenses |-> exps]

\* raise: the session is rolled back, the tables stay as they were.
Raise(cats, exps, result, detail, id) == Outcome(result, detail, id, cats, exps)

\* await db.commit(): the pending rows are written, unless a constraint
\* refuses them, which raises IntegrityError and writes nothing.
commit(cats, exps, newcats, newexps, id) ==
    IF CategoryConstraints(newcats) /\ ExpenseConstraints(newexps)
    THEN Outcome("ok", "", id, newcats, newexps)
    ELSE Raise(cats, exps, "IntegrityError", "", id)

\* return value: a call that reads hands a value back and writes nothing.
Return(cats, exps, id, value) ==
    [result |-> "ok", detail |-> "", id |-> id,
     categories |-> cats, expenses |-> exps, ret |-> value]

\* result.scalars().all() of a select without ORDER BY that reads every
\* column: the engine walks the table, which is stored in rowid (id) order.
RECURSIVE scan(_)
scan(table) ==
    IF table = {} THEN <<>>
    ELSE LET first == CHOOSE r \in table : \A o \in table : r.id <= o.id
         IN <<first>> \o scan(table \ {first})

\* .offset(n): the rows after the first n. .limit(n): at most the first n.
offset(rows, n) ==
    IF n >= Len(rows) THEN <<>> ELSE SubSeq(rows, n + 1, Len(rows))
limit(rows, n) ==
    IF n >= Len(rows) THEN rows ELSE SubSeq(rows, 1, n)

\* The lists a select with a WHERE clause may return: the rows it selects,
\* each once, in the order of whichever index or scan the engine picks.
AnyOrder(rows) ==
    {seq \in [1 .. Cardinality(rows) -> rows] :
        \A i, j \in 1 .. Cardinality(rows) : seq[i] = seq[j] => i = j}

\* Mutant: the payload dumped without exclude_unset, so that every field
\* that was not set is written as None.
setattrs_all(row, update_data) ==
    [f \in DOMAIN row |->
        IF f = "id" THEN row.id
        ELSE IF f \in DOMAIN update_data THEN update_data[f] ELSE None]

\* for key, value in update_data.items(): setattr(row, key, value)
setattrs(row, update_data) ==
    [f \in DOMAIN row |-> IF f \in DOMAIN update_data THEN update_data[f] ELSE row[f]]

\* ------------------------------------------------------------- CategoryService
\* Mutant: a lookup that never finds a row.
get_category_by_name_none(cats, name) == {}

get_category_by_name(cats, name) == {c \in cats : c.name = name}

\* Mutant: the row written without the lookup, to a table that has lost its
\* unique index.
create_category_unchecked(cats, exps, category_data) ==
    Outcome("ok", "", NextId(cats),
            cats \cup {Category(NextId(cats), category_data)}, exps)

create_category(cats, exps, category_data) ==
    IF get_category_by_name(cats, category_data.name) # {}
    THEN Raise(cats, exps, "Duplicate", "name", 0)
    ELSE commit(cats, exps,
                cats \cup {Category(NextId(cats), category_data)}, exps,
                NextId(cats))

\* Mutant: any row of that name counts as a collision, the updated one too.
update_category_any_row(cats, exps, category_id, update_data) ==
    LET found == db_get(cats, category_id) IN
    IF found = {}
    THEN Raise(cats, exps, "NotFound", "Category", category_id)
    ELSE LET category == CHOOSE c \in found : TRUE IN
         IF /\ "name" \in DOMAIN update_data
            /\ get_category_by_name(cats, update_data.name) # {}
         THEN Raise(cats, exps, "Duplicate", "name", category_id)
         ELSE commit(cats, exps,
                     (cats \ {category}) \cup {setattrs(category, update_data)},
                     exps, category_id)

update_category(cats, exps, category_id, update_data) ==
    LET found == db_get(cats, category_id) IN
    IF found = {}
    THEN Raise(cats, exps, "NotFound", "Category", category_id)
    ELSE LET category == CHOOSE c \in found : TRUE IN
         IF /\ "name" \in DOMAIN update_data
            /\ \E existing \in get_category_by_name(cats, update_data.name) :
                  existing.id # category_id
         THEN Raise(cats, exps, "Duplicate", "name", category_id)
         ELSE commit(cats, exps,
                     (cats \ {category}) \cup {setattrs(category, update_data)},
                     exps, category_id)

delete_category(cats, exps, category_id) ==
    LET found == db_get(cats, category_id) IN
    IF found = {}
    THEN Raise(cats, exps, "NotFound", "Category", category_id)
    ELSE LET category == CHOOSE c \in found : TRUE IN
         commit(cats, exps, cats \ {category},
                exps \ Category_expenses(exps, category), category_id)

\* Mutant: a missing row is handed back as None instead of raised.
get_category_by_id_none(cats, exps, category_id) ==
    LET found == db_get(cats, category_id) IN
    IF found = {} THEN Return(cats, exps, category_id, None)
    ELSE Return(cats, exps, category_id, CHOOSE c \in found : TRUE)

get_category_by_id(cats, exps, category_id) ==
    LET found == db_get(cats, category_id) IN
    IF found = {}
    THEN Raise(cats, exps, "NotFound", "Category", category_id)
    ELSE Return(cats, exps, category_id, CHOOSE c \in found : TRUE)

\* Mutant: an inner join, which has no row for a category without expenses.
outerjoin_inner(cats, exps) ==
    {<<p[1], Some(p[2])>> :
        p \in {q \in cats \X exps : q[2].category_id = Some(q[1].id)}}

\* select(Category, ...).outerjoin(Expense, Category.id == Expense.category_id):
\* a row for each category and each of its expenses, and a row with a null
\* expense for a category that has none.
outerjoin(cats, exps) ==
    {<<p[1], Some(p[2])>> :
        p \in {q \in cats \X exps : q[2].category_id = Some(q[1].id)}}
        \cup {<<c, None>> : c \in {x \in cats :
                                    \A e \in exps : e.category_id # Some(x.id)}}

\* .group_by(Category.id) with func.count(Expense.id): one row for each
\* category id among the joined rows, with the number of joined rows of
\* that id whose expense id is not null; the groups come in key order.
get_categories_with_expense_count(cats, exps) ==
    LET joined == outerjoin(cats, exps)
        groups == scan({j[1] : j \in joined})
    IN Return(cats, exps, 0,
              [i \in 1 .. Len(groups) |->
                  <<groups[i],
                    Cardinality({j \in joined :
                                    j[1].id = groups[i].id /\ j[2] # None})>>])

\* ------------------------------------------------------------- ExpenseService
\* Mutant: the date is not checked.
create_expense_any_date(cats, exps, now, expense_data) ==
    IF db_get(cats, Val(expense_data.category_id)) = {}
    THEN Raise(cats, exps, "NotFound", "Category", 0)
    ELSE IF Val(expense_data.amount) <= 0
    THEN Raise(cats, exps, "Validation", "amount", 0)
    ELSE commit(cats, exps, cats,
                exps \cup {Expense(NextId(exps), expense_data)}, NextId(exps))

\* Mutant: the amount is checked before the category.
create_expense_amount_first(cats, exps, now, expense_data) ==
    IF Val(expense_data.amount) <= 0
    THEN Raise(cats, exps, "Validation", "amount", 0)
    ELSE IF db_get(cats, Val(expense_data.category_id)) = {}
    THEN Raise(cats, exps, "NotFound", "Category", 0)
    ELSE IF Val(expense_data.expense_date) > now
    THEN Raise(cats, exps, "Validation", "expense_date", 0)
    ELSE commit(cats, exps, cats,
                exps \cup {Expense(NextId(exps), expense_data)}, NextId(exps))

\* Mutant: an amount of zero passes (< for <=).
create_expense_zero_passes(cats, exps, now, expense_data) ==
    IF db_get(cats, Val(expense_data.category_id)) = {}
    THEN Raise(cats, exps, "NotFound", "Category", 0)
    ELSE IF Val(expense_data.amount) < 0
    THEN Raise(cats, exps, "Validation", "amount", 0)
    ELSE IF Val(expense_data.expense_date) > now
    THEN Raise(cats, exps, "Validation", "expense_date", 0)
    ELSE commit(cats, exps, cats,
                exps \cup {Expense(NextId(exps), expense_data)}, NextId(exps))

\* Mutant: today's date is refused (>= for >).
create_expense_today_refused(cats, exps, now, expense_data) ==
    IF db_get(cats, Val(expense_data.category_id)) = {}
    THEN Raise(cats, exps, "NotFound", "Category", 0)
    ELSE IF Val(expense_data.amount) <= 0
    THEN Raise(cats, exps, "Validation", "amount", 0)
    ELSE IF Val(expense_data.expense_date) >= now
    THEN Raise(cats, exps, "Validation", "expense_date", 0)
    ELSE commit(cats, exps, cats,
                exps \cup {Expense(NextId(exps), expense_data)}, NextId(exps))

create_expense(cats, exps, now, expense_data) ==
    IF db_get(cats, Val(expense_data.category_id)) = {}
    THEN Raise(cats, exps, "NotFound", "Category", 0)
    ELSE IF Val(expense_data.amount) <= 0
    THEN Raise(cats, exps, "Validation", "amount", 0)
    ELSE IF Val(expense_data.expense_date) > now
    THEN Raise(cats, exps, "Validation", "expense_date", 0)
    ELSE commit(cats, exps, cats,
                exps \cup {Expense(NextId(exps), expense_data)}, NextId(exps))

\* Mutant: the new category is not looked up.
update_expense_any_category(cats, exps, now, expense_id, update_data) ==
    LET found == db_get(exps, expense_id) IN
    IF found = {}
    THEN Raise(cats, exps, "NotFound", "Expense", expense_id)
    ELSE LET expense == CHOOSE e \in found : TRUE IN
         IF "amount" \in DOMAIN update_data /\ update_data.amount = None
         THEN Raise(cats, exps, "TypeError", "amount", expense_id)
         ELSE IF "amount" \in DOMAIN update_data /\ Val(update_data.amount) <= 0
         THEN Raise(cats, exps, "Validation", "amount", expense_id)
         ELSE IF "expense_date" \in DOMAIN update_data /\ update_data.expense_date = None
         THEN Raise(cats, exps, "TypeError", "expense_date", expense_id)
         ELSE IF "expense_date" \in DOMAIN update_data /\ Val(update_data.expense_date) > now
         THEN Raise(cats, exps, "Validation", "expense_date", expense_id)
         ELSE commit(cats, exps, cats,
                     (exps \ {expense}) \cup {setattrs(expense, update_data)},
                     expense_id)

\* Mutant: the amount is checked before the new category is looked up.
update_expense_amount_first(cats, exps, now, expense_id, update_data) ==
    LET found == db_get(exps, expense_id) IN
    IF found = {}
    THEN Raise(cats, exps, "NotFound", "Expense", expense_id)
    ELSE LET expense == CHOOSE e \in found : TRUE IN
         IF "amount" \in DOMAIN update_data /\ update_data.amount = None
         THEN Raise(cats, exps, "TypeError", "amount", expense_id)
         ELSE IF "amount" \in DOMAIN update_data /\ Val(update_data.amount) <= 0
         THEN Raise(cats, exps, "Validation", "amount", expense_id)
         ELSE IF /\ "category_id" \in DOMAIN update_data
                 /\ \/ update_data.category_id = None
                    \/ db_get(cats, Val(update_data.category_id)) = {}
         THEN Raise(cats, exps, "NotFound", "Category", expense_id)
         ELSE IF "expense_date" \in DOMAIN update_data /\ update_data.expense_date = None
         THEN Raise(cats, exps, "TypeError", "expense_date", expense_id)
         ELSE IF "expense_date" \in DOMAIN update_data /\ Val(update_data.expense_date) > now
         THEN Raise(cats, exps, "Validation", "expense_date", expense_id)
         ELSE commit(cats, exps, cats,
                     (exps \ {expense}) \cup {setattrs(expense, update_data)},
                     expense_id)

\* A field set to null reaches the checks as None: db.get finds no category
\* under the key None, and None <= 0 or None > date.today() raises TypeError.
\* A null description passes the checks and is refused by the store.
update_expense(cats, exps, now, expense_id, update_data) ==
    LET found == db_get(exps, expense_id) IN
    IF found = {}
    THEN Raise(cats, exps, "NotFound", "Expense", expense_id)
    ELSE LET expense == CHOOSE e \in found : TRUE IN
         IF /\ "category_id" \in DOMAIN update_data
            /\ \/ update_data.category_id = None
               \/ db_get(cats, Val(update_data.category_id)) = {}
         THEN Raise(cats, exps, "NotFound", "Category", expense_id)
         ELSE IF "amount" \in DOMAIN update_data /\ update_data.amount = None
         THEN Raise(cats, exps, "TypeError", "amount", expense_id)
         ELSE IF "amount" \in DOMAIN update_data /\ Val(update_data.amount) <= 0
         THEN Raise(cats, exps, "Validation", "amount", expense_id)
         ELSE IF "expense_date" \in DOMAIN update_data /\ update_data.expense_date = None
         THEN Raise(cats, exps, "TypeError", "expense_date", expense_id)
         ELSE IF "expense_date" \in DOMAIN update_data /\ Val(update_data.expense_date) > now
         THEN Raise(cats, exps, "Validation", "expense_date", expense_id)
         ELSE commit(cats, exps, cats,
                     (exps \ {expense}) \cup {setattrs(expense, update_data)},
                     expense_id)

\* Mutant: the delete takes the other expenses of the same category along.
delete_expense_with_siblings(cats, exps, expense_id) ==
    LET found == db_get(exps, expense_id) IN
    IF found = {}
    THEN Raise(cats, exps, "NotFound", "Expense", expense_id)
    ELSE commit(cats, exps, cats,
                {e \in exps : \A f \in found : e.category_id # f.category_id},
                expense_id)

delete_expense(cats, exps, expense_id) ==
    LET found == db_get(exps, expense_id) IN
    IF found = {}
    THEN Raise(cats, exps, "NotFound", "Expense", expense_id)
    ELSE commit(cats, exps, cats, exps \ found, expense_id)

\* Mutant: the limit is applied to the table before the offset.
get_all_expenses_limit_first(cats, exps, skip, size) ==
    Return(cats, exps, 0, offset(limit(scan(exps), size), skip))

\* select(Expense).offset(skip).limit(limit)
get_all_expenses(cats, exps, skip, size) ==
    Return(cats, exps, 0, limit(offset(scan(exps), skip), size))

\* GET /api/expenses/: skip = (page - 1) * size, limit = size
get_all_expenses_page(cats, exps, page, size) ==
    get_all_expenses(cats, exps, (page - 1) * size, size)

\* GET /api/expenses/recent: get_all_expenses(db, skip=0, limit=limit)
get_recent_expenses(cats, exps, size) ==
    get_all_expenses(cats, exps, 0, size)

get_expense_by_id(cats, exps, expense_id) ==
    LET found == db_get(exps, expense_id) IN
    IF found = {}
    THEN Raise(cats, exps, "NotFound", "Expense", expense_id)
    ELSE Return(cats, exps, expense_id, CHOOSE e \in found : TRUE)

\* Mutant: the category is looked up first and a missing one is an error.
get_expenses_by_category_checked(cats, exps, category_id) ==
    IF db_get(cats, category_id) = {}
    THEN Raise(cats, exps, "NotFound", "Category", category_id)
    ELSE Return(cats, exps, category_id,
                {e \in exps : e.category_id = Some(category_id)})

\* select(Expense).where(Expense.category_id == category_id): the rows selected.
get_expenses_by_category(cats, exps, category_id) ==
    Return(cats, exps, category_id,
           {e \in exps : e.category_id = Some(category_id)})

\* Mutant: the end date is left out (< for <=).
get_expenses_by_date_range_exclusive(cats, exps, start_date, end_date) ==
    Return(cats, exps, 0,
           {e \in exps : /\ Val(e.expense_date) >= start_date
                         /\ Val(e.expense_date) < end_date})

\* select(Expense).where(and_(expense_date >= start_date,
\* expense_date <= end_date)): the rows selected.
get_expenses_by_date_range(cats, exps, start_date, end_date) ==
    Return(cats, exps, 0,
           {e \in exps : /\ Val(e.expense_date) >= start_date
                         /\ Val(e.expense_date) <= end_date})

\* func.sum(Expense.amount): the total of the column, NULL over no row.
RECURSIVE func_sum(_)
func_sum(rows) ==
    IF rows = {} THEN None
    ELSE LET r == CHOOSE x \in rows : TRUE
             rest == func_sum(rows \ {r})
         IN Some(Val(r.amount) + (IF rest = None THEN 0 ELSE Val(rest)))

\* func.coalesce(a, b): the first of the two that is not NULL.
coalesce(a, b) == IF a # None THEN a ELSE b

\* Mutant: the sum without coalesce; Decimal(None) raises TypeError.
get_total_expense_amount_no_coalesce(cats, exps) ==
    IF func_sum(exps) = None
    THEN Raise(cats, exps, "TypeError", "total", 0)
    ELSE Return(cats, exps, 0, Val(func_sum(exps)))

\* select(func.coalesce(func.sum(Expense.amount), 0)), then Decimal(total)
get_total_expense_amount(cats, exps) ==
    Return(cats, exps, 0, Val(coalesce(func_sum(exps), Some(0))))

\* Text. A str is a TLA+ string; Len, SubSeq and \o act on its characters.
Upper == "ABCDEFGHIJKLMNOPQRSTUVWXYZ"
Lower == "abcdefghijklmnopqrstuvwxyz"

\* SQL lower(): the ASCII capitals become small letters, every other
\* character stays.
RECURSIVE lower(_)
lower(text) ==
    IF text = "" THEN ""
    ELSE LET c == SubSeq(text, 1, 1)
             at == {i \in 1 .. Len(Upper) : SubSeq(Upper, i, i) = c}
         IN (IF at = {} THEN c
             ELSE LET i == CHOOSE i \in at : TRUE IN SubSeq(Lower, i, i))
            \o lower(SubSeq(text, 2, Len(text)))

\* SQL LIKE: in the pattern, % stands for any run of characters, the empty
\* one included, _ for any one character, every other character for itself.
RECURSIVE like(_, _)
like(text, pattern) ==
    IF pattern = "" THEN text = ""
    ELSE LET p == SubSeq(pattern, 1, 1)
             rest == SubSeq(pattern, 2, Len(pattern))
         IN IF p = "%"
            THEN \/ like(text, rest)
                 \/ text # "" /\ like(SubSeq(text, 2, Len(text)), pattern)
            ELSE /\ text # ""
                 /\ p = "_" \/ p = SubSeq(text, 1, 1)
                 /\ like(SubSeq(text, 2, Len(text)), rest)

\* column.ilike(pattern): lower(column) LIKE lower(pattern)
ilike(text, pattern) == like(lower(text), lower(pattern))

\* select(Expense).where(or_(Expense.description.ilike(f"%{keyword}%"))):
\* the rows selected.
search_expenses(cats, exps, keyword) ==
    Return(cats, exps, 0,
           {e \in exps : ilike(Val(e.description), "%" \o keyword \o "%")})

\* ------------------------------------------------------------- schemas
\* Mutant: the number of full pages.
pages_full(total, size) ==
    IF size > 0 THEN total \div size ELSE 0

\* pages = (total + size - 1) // size if size > 0 else 0
pages(total, size) ==
    IF size > 0 THEN (total + size - 1) \div size ELSE 0

\* Field(ge=1, le=100) of PaginatedResponse.size
MaxPageSize == 100

\* PaginatedResponse.create(items, total, page, size): the pages computed,
\* then the model validated (page >= 1, 1 <= size <= 100).
PaginatedResponse_create(cats, exps, total, page, size) ==
    LET n == pages(total, size) IN
    IF page >= 1 /\ size >= 1 /\ size <= MaxPageSize
    THEN Return(cats, exps, 0,
                [total |-> total, page |-> page, size |-> size, pages |-> n])
    ELSE Raise(cats, exps, "ValidationError", "PaginatedResponse", 0)

\* ------------------------------------------------------------- inputs
CategoryFields == {"name", "description", "icon", "color"}
ExpenseFields == {"amount", "description", "expense_date", "category_id", "notes"}

Names == {"Food", "food", "Bills"}
Descriptions == {"Groceries, restaurants, snacks"}
Icons == {"fas fa-utensils"}
Colors == {"#FF6B6B"}

Amounts == {-550, 0, 1000, 2550}
ExpenseDescriptions == {"Lunch"}
Notes == {"Had a sandwich"}
Dates == 0 .. (MaxDay + 1)

\* A payload of an update schema is the dict model_dump(exclude_unset=True)
\* makes of it: a function from the fields that were set to their values,
\* None where a field was set to null.
Restrict(r, D) == [f \in D |-> r[f]]

\* CategoryCreate: name is required, the other fields default to None.
CategoryCreate ==
    [name : {Some(n) : n \in Names}, description : Opt(Descriptions),
     icon : Opt(Icons), color : Opt(Colors)]

\* CategoryUpdate: every field optional. The payloads that set at most one
\* field, name and description, or icon and color.
CategoryUpdateShapes ==
    {F \in SUBSET CategoryFields : Cardinality(F) <= 1}
        \cup {{"name", "description"}, {"icon", "color"}}
CategoryUpdate ==
    {Restrict(r, D) :
        r \in [name : Opt(Names), description : Opt(Descriptions),
               icon : Opt(Icons), color : Opt(Colors)],
        D \in CategoryUpdateShapes}

\* ExpenseCreate: notes defaults to None, the other fields are required.
ExpenseCreate ==
    [amount : {Some(a) : a \in Amounts},
     description : {Some(d) : d \in ExpenseDescriptions},
     expense_date : {Some(d) : d \in Dates},
     category_id : {Some(c) : c \in CategoryRefs},
     notes : Opt(Notes)]

\* ExpenseUpdate: every field optional. The payloads that set at most one
\* field, category_id and amount, amount and expense_date, or amount and notes.
ExpenseUpdateShapes ==
    {F \in SUBSET ExpenseFields : Cardinality(F) <= 1}
        \cup {{"category_id", "amount"}, {"amount", "expense_date"},
              {"amount", "notes"}}
ExpenseUpdate ==
    {Restrict(r, D) :
        r \in [amount : Opt(Amounts), description : Opt(ExpenseDescriptions),
               expense_date : Opt(Dates), category_id : Opt(CategoryRefs),
               notes : Opt(Notes)],
        D \in ExpenseUpdateShapes}

\* The category payloads of the expense-centred specification: two names
\* that differ in case only, with or without a description.
NamesFew == {"Food", "food"}
CategoryCreateFew ==
    {d \in CategoryCreate :
        d.name \in Opt(NamesFew) /\ d.icon = None /\ d.color = None}
CategoryUpdateFew ==
    {u \in CategoryUpdate :
        /\ DOMAIN u \subseteq {"name", "description"}
        /\ "name" \in DOMAIN u => u.name \in Opt(NamesFew)}

\* The expense payloads of the category-centred specification: one expense
\* for each category id.
ExpenseCreateFew ==
    {d \in ExpenseCreate : d.amount = Some(2550) /\ d.expense_date = Some(0) /\ d.notes = None}

\* The payloads and arguments of the query-centred specification: categories
\* by name alone, expenses that pass the checks and differ in every column a
\* query reads, and updates of one field.
CategoryCreateQuery ==
    {d \in CategoryCreateFew : d.description = None}
CategoryUpdateQuery ==
    {u \in CategoryUpdateFew : DOMAIN u = {"name"} /\ u.name = Some("Food")}
DescriptionsQuery == {"Lunch", "Sandwich"}
ExpenseCreateQuery ==
    [amount : {Some(1000), Some(2550)},
     description : {Some(d) : d \in DescriptionsQuery},
     expense_date : {Some(d) : d \in 0 .. MaxDay},
     category_id : {Some(c) : c \in CategoryIds},
     notes : Opt(Notes)]
ExpenseUpdateQuery ==
    {u \in ExpenseUpdate : DOMAIN u = {"notes"}}
\* Keywords: part of a description in another case, part of the notes only,
\* the empty keyword, and the two characters LIKE reads as wildcards.
Keywords == {"lunch", "SAND", "had", "", "_", "%"}
\* skip and limit, and the page and size of GET /api/expenses/ (page >= 1,
\* size >= 1).
Skips == 0 .. (MaxExpId + 1)
Limits == 0 .. (MaxExpId + 1)
Pages == 1 .. (MaxExpId + 1)
Sizes == 1 .. (MaxExpId + 1)

\* Arguments of PaginatedResponse.create: totals from 0, page sizes around
\* the range the schema allows, a page number on each side of its minimum.
Totals == 0 .. MaxTotal
PageSizes == 0 .. (MaxPageSize + 1)
PageNumbers == {0, 1}

\* The web category edit form: any of the four fields submitted, each with
\* a text.
CategoryForms ==
    {Restrict(r, D) :
        r \in [name : NamesFew, description : Descriptions,
               icon : Icons, color : Colors],
        D \in SUBSET CategoryFields}

\* ------------------------------------------------------------- web routes
\* POST /categories/{category_id}/edit: a form field that was not submitted
\* arrives as None (Form(None)); CategoryUpdate(name=name, description=
\* description, icon=icon, color=color) is given all four fields, so all
\* four are set in the payload the service receives. The handler catches
\* every exception of the service and renders a page.
web_update_category(cats, exps, category_id, form) ==
    update_category(cats, exps, category_id,
                    [f \in CategoryFields |->
                        IF f \in DOMAIN form THEN Some(form[f]) ELSE None])

\* ------------------------------------------------------------- actions
\* No call is being served.
NoCall == [op |-> "none", id |-> 0, data |-> <<>>, result |-> "ok", detail |-> ""]
NoTables == [categories |-> {}, expenses |-> {}]

\* The requests that can be in flight at once (two coroutines of the event
\* loop, each with the session get_db handed it).
Requests == {1, 2}

\* No request: the session is closed.
Idle ==
    [op |-> "none", id |-> 0, data |-> <<>>, pc |-> "idle", result |-> "ok",
     loaded |-> {}, children |-> {}, gone |-> FALSE, wrote |-> FALSE,
     session |-> "closed"]

Init ==
    /\ categories = {}
    /\ expenses = {}
    /\ today = 0
    /\ last = NoCall
    /\ old = NoTables
    /\ inflight = [p \in Requests |-> Idle]

\* The effect of one service call: its outcome replaces the tables and is
\* recorded for the caller. Calls are made one at a time (last = NoCall).
Call(op, data, r) ==
    /\ categories' = r.categories
    /\ expenses' = r.expenses
    /\ last' = [op |-> op, id |-> r.id, data |-> data,
                result |-> r.result, detail |-> r.detail]
    /\ old' = [categories |-> categories, expenses |-> expenses]
    /\ UNCHANGED <<today, inflight>>

CreateCategory(category_data) ==
    /\ last = NoCall
    /\ LET r == create_category(categories, expenses, category_data) IN
       /\ r.result = "ok" => r.id <= MaxCatId
       /\ Call("create_category", category_data, r)

UpdateCategory(category_id, category_data) ==
    /\ last = NoCall
    /\ Call("update_category", category_data,
             update_category(categories, expenses, category_id, category_data))

DeleteCategory(category_id) ==
    /\ last = NoCall
    /\ Call("delete_category", <<>>,
             delete_category(categories, expenses, category_id))

CreateExpense(expense_data) ==
    /\ last = NoCall
    /\ LET r == create_expense(categories, expenses, today, expense_data) IN
       /\ r.result = "ok" => r.id <= MaxExpId
       /\ Call("create_expense", expense_data, r)

UpdateExpense(expense_id, expense_data) ==
    /\ last = NoCall
    /\ Call("update_expense", expense_data,
             update_expense(categories, expenses, today, expense_id, expense_data))

DeleteExpense(expense_id) ==
    /\ last = NoCall
    /\ Call("delete_expense", <<>>,
             delete_expense(categories, expenses, expense_id))

\* The effect of a call that reads: the tables stay, the value it returns
\* (None when it raises) is recorded for the caller.
Read(op, data, r, value) ==
    /\ categories' = r.categories
    /\ expenses' = r.expenses
    /\ last' = [op |-> op, id |-> r.id, data |-> data,
                result |-> r.result, detail |-> r.detail, ret |-> value]
    /\ old' = [categories |-> categories, expenses |-> expenses]
    /\ UNCHANGED <<today, inflight>>

\* list(result.scalars().all()) of a select with a WHERE clause: the rows
\* selected, in an order of the engine's choice.
ReadRows(op, data, r) ==
    IF r.result = "ok"
    THEN \E rows \in AnyOrder(r.ret) : Read(op, data, r, rows)
    ELSE Read(op, data, r, None)

GetCategoryById(category_id) ==
    /\ last = NoCall
    /\ LET r == get_category_by_id(categories, expenses, category_id) IN
       Read("get_category_by_id", <<>>, r, IF r.result = "ok" THEN r.ret ELSE None)

GetCategoriesWithExpenseCount ==
    /\ last = NoCall
    /\ LET r == get_categories_with_expense_count(categories, expenses) IN
       Read("get_categories_with_expense_count", <<>>, r, r.ret)

GetAllExpenses(skip, size) ==
    /\ last = NoCall
    /\ LET r == get_all_expenses(categories, expenses, skip, size) IN
       Read("get_all_expenses", [skip |-> skip, limit |-> size], r, r.ret)

GetRecentExpenses(size) ==
    /\ last = NoCall
    /\ LET r == get_recent_expenses(categories, expenses, size) IN
       Read("get_recent_expenses", [limit |-> size], r, r.ret)

GetExpenseById(expense_id) ==
    /\ last = NoCall
    /\ LET r == get_expense_by_id(categories, expenses, expense_id) IN
       Read("get_expense_by_id", <<>>, r, IF r.result = "ok" THEN r.ret ELSE None)

GetExpensesByCategory(category_id) ==
    /\ last = NoCall
    /\ ReadRows("get_expenses_by_category", <<>>,
                get_expenses_by_category(categories, expenses, category_id))

GetExpensesByDateRange(start_date, end_date) ==
    /\ last = NoCall
    /\ ReadRows("get_expenses_by_date_range",
                [start_date |-> start_date, end_date |-> end_date],
                get_expenses_by_date_range(categories, expenses,
                                           start_date, end_date))

GetTotalExpenseAmount ==
    /\ last = NoCall
    /\ LET r == get_total_expense_amount(categories, expenses) IN
       Read("get_total_expense_amount", <<>>, r,
            IF r.result = "ok" THEN r.ret ELSE None)

SearchExpenses(keyword) ==
    /\ last = NoCall
    /\ ReadRows("search_expenses", [keyword |-> keyword],
                search_expenses(categories, expenses, keyword))

CreatePaginatedResponse(total, page, size) ==
    /\ last = NoCall
    /\ LET r == PaginatedResponse_create(categories, expenses,
                                         total, page, size) IN
       Read("PaginatedResponse.create",
            [total |-> total, page |-> page, size |-> size], r,
            IF r.result = "ok" THEN r.ret ELSE None)

WebUpdateCategory(category_id, form) ==
    /\ last = NoCall
    /\ Call("web_update_category", form,
            web_update_category(categories, expenses, category_id, form))

\* The caller has the outcome (the value returned or the exception raised)
\* and the request is over; the next call can be made.
Finish ==
    /\ last # NoCall
    /\ last' = NoCall
    /\ old' = NoTables
    /\ UNCHANGED <<categories, expenses, today, inflight>>

\* Midnight: date.today() moves on.
Tick ==
    /\ last = NoCall
    /\ today < MaxDay
    /\ today' = today + 1
    /\ UNCHANGED <<categories, expenses, last, old, inflight>>

\* The category-centred specification: the category operations on every
\* payload, and expenses to cascade to.
Next ==
    \/ \E d \in CategoryCreate : CreateCategory(d)
    \/ \E id \in CategoryIds, u \in CategoryUpdate : UpdateCategory(id, u)
    \/ \E id \in CategoryIds : DeleteCategory(id)
    \/ \E d \in ExpenseCreateFew : CreateExpense(d)
    \/ \E id \in ExpenseIds : DeleteExpense(id)
    \/ Finish

Spec == Init /\ [][Next]_vars

\* The expense-centred specification: every operation, the expense
\* operations on every payload, and the passing of time.
NextExpense ==
    \/ \E d \in CategoryCreateFew : CreateCategory(d)
    \/ \E id \in CategoryIds, u \in CategoryUpdateFew : UpdateCategory(id, u)
    \/ \E id \in CategoryIds : DeleteCategory(id)
    \/ \E d \in ExpenseCreate : CreateExpense(d)
    \/ \E id \in ExpenseIds, u \in ExpenseUpdate : UpdateExpense(id, u)
    \/ \E id \in ExpenseIds : DeleteExpense(id)
    \/ Finish
    \/ Tick

SpecExpense == Init /\ [][NextExpense]_vars

\* The query-centred specification: every operation, the queries on every
\* argument, over stores whose expenses differ in every column a query reads.
NextQuery ==
    \/ \E d \in CategoryCreateQuery : CreateCategory(d)
    \/ \E id \in CategoryIds, u \in CategoryUpdateQuery : UpdateCategory(id, u)
    \/ \E id \in CategoryIds : DeleteCategory(id)
    \/ \E d \in ExpenseCreateQuery : CreateExpense(d)
    \/ \E id \in ExpenseIds, u \in ExpenseUpdateQuery : UpdateExpense(id, u)
    \/ \E id \in ExpenseIds : DeleteExpense(id)
    \/ \E id \in CategoryRefs : GetCategoryById(id)
    \/ GetCategoriesWithExpenseCount
    \/ \E skip \in Skips, size \in Limits : GetAllExpenses(skip, size)
    \/ \E size \in Sizes : GetRecentExpenses(size)
    \/ \E id \in ExpenseIds : GetExpenseById(id)
    \/ \E id \in CategoryRefs : GetExpensesByCategory(id)
    \/ \E start_date, end_date \in Dates :
          GetExpensesByDateRange(start_date, end_date)
    \/ GetTotalExpenseAmount
    \/ \E keyword \in Keywords : SearchExpenses(keyword)
    \/ Finish
    \/ Tick

SpecQuery == Init /\ [][NextQuery]_vars

\* The specification of the response schemas: PaginatedResponse.create on
\* every argument.
NextPages ==
    \/ \E total \in Totals, page \in PageNumbers, size \in PageSizes :
          CreatePaginatedResponse(total, page, size)
    \/ Finish

SpecPages == Init /\ [][NextPages]_vars

\* The specification of the web category form: categories created with
\* every payload, edited through the form, and deleted.
NextWeb ==
    \/ \E d \in CategoryCreate : CreateCategory(d)
    \/ \E id \in CategoryIds, form \in CategoryForms :
          WebUpdateCategory(id, form)
    \/ \E id \in CategoryIds : DeleteCategory(id)
    \/ Finish

SpecWeb == Init /\ [][NextWeb]_vars

\* ------------------------------------------------------------- seeding
\* The sample categories.
CATEGORIES ==
    << [name |-> "Food", icon |-> "fas fa-utensils", color |-> "#FF6B6B",
        description |-> "Groceries, restaurants, snacks"],
       [name |-> "Transport", icon |-> "fas fa-car", color |-> "#4ECDC4",
        description |-> "Public transport, fuel, taxi"],
       [name |-> "Entertainment", icon |-> "fas fa-film", color |-> "#45B7D1",
        description |-> "Movies, concerts, games"],
       [name |-> "Shopping", icon |-> "fas fa-shopping-bag",
        color |-> "#96CEB4", description |-> "Clothes, gifts, online shopping"],
       [name |-> "Bills", icon |-> "fas fa-file-invoice", color |-> "#FECA57",
        description |-> "Utilities, rent, subscriptions"],
       [name |-> "Health", icon |-> "fas fa-medkit", color |-> "#FF9FF3",
        description |-> "Medicine, doctor, gym"] >>

EXPENSE_DESCRIPTIONS ==
    << "Lunch at cafe", "Bus ticket", "Movie night", "New shoes",
       "Electricity bill", "Pharmacy purchase", "Groceries", "Taxi ride",
       "Concert ticket", "Online shopping", "Water bill", "Doctor visit",
       "Dinner with friends", "Fuel refill", "Streaming subscription",
       "Gym membership", "Gift for friend", "Snack", "Train fare",
       "Game purchase" >>

\* random.randint(15, 20): the number of expenses generated.
MinExpenses == 15
MaxExpenses == 20

\* round(random.uniform(5, 500), 2), in cents.
MinAmount == 500
MaxAmount == 50000

\* random.randint(0, 29)
MaxDaysAgo == 29

\* What the random generator hands out for one expense: an index into the
\* categories just created, an amount, an index into EXPENSE_DESCRIPTIONS
\* and a number of days. The least draw, the greatest draw and one between.
Deck ==
    << [category |-> 1, amount |-> MinAmount, description |-> 1,
        days_ago |-> 0],
       [category |-> Len(CATEGORIES), amount |-> MaxAmount,
        description |-> Len(EXPENSE_DESCRIPTIONS), days_ago |-> MaxDaysAgo],
       [category |-> 3, amount |-> 12345, description |-> 3,
        days_ago |-> 15] >>

\* The runs of the random generator considered: every number of expenses,
\* the draws going round the deck from any of its places.
RandomDraws ==
    {[i \in 1 .. n |-> Deck[((i + shift) % Len(Deck)) + 1]] :
        n \in MinExpenses .. MaxExpenses, shift \in 1 .. Len(Deck)}

\* Mutant: the date lies days_ago days ahead.
seed_expense_ahead(id, now, category_objs, draw) ==
    Expense(id, [amount |-> Some(draw.amount),
                 description |-> Some(EXPENSE_DESCRIPTIONS[draw.description]),
                 expense_date |-> Some(now + draw.days_ago),
                 category_id |-> Some(category_objs[draw.category].id),
                 notes |-> None])

\* One turn of the loop that generates expenses.
seed_expense(id, now, category_objs, draw) ==
    Expense(id, [amount |-> Some(draw.amount),
                 description |-> Some(EXPENSE_DESCRIPTIONS[draw.description]),
                 expense_date |-> Some(now - draw.days_ago),
                 category_id |-> Some(category_objs[draw.category].id),
                 notes |-> None])

\* seed_database past its check: the categories are added and committed,
\* then the expenses are generated, added and committed.
seed_rows(cats, exps, now, draws) ==
    LET category_objs ==
            [i \in 1 .. Len(CATEGORIES) |->
                Category(NextId(cats) + i - 1,
                         [name |-> Some(CATEGORIES[i].name),
                          description |-> Some(CATEGORIES[i].description),
                          icon |-> Some(CATEGORIES[i].icon),
                          color |-> Some(CATEGORIES[i].color)])]
        first == commit(cats, exps,
                        cats \cup {category_objs[i] : i \in DOMAIN category_objs},
                        exps, 0)
        rows == [i \in 1 .. Len(draws) |->
                    seed_expense(NextId(exps) + i - 1, now, category_objs,
                                 draws[i])]
    IN  IF first.result # "ok"
        THEN first
        ELSE commit(first.categories, first.expenses, first.categories,
                    exps \cup {rows[i] : i \in DOMAIN rows}, 0)

\* Mutant: seeding without the check.
seed_database_unchecked(cats, exps, now, draws) ==
    seed_rows(cats, exps, now, draws)

\* seed_database, run by lifespan at every start of the application: it
\* returns at once when the categories table holds a row.
seed_database(cats, exps, now, draws) ==
    IF Cardinality(cats) > 0
    THEN Outcome("ok", "", 0, cats, exps)
    ELSE seed_rows(cats, exps, now, draws)

\* The application starts (no request is being served).
Seed(draws) ==
    /\ last = NoCall
    /\ Call("seed_database", draws,
            seed_database(categories, expenses, today, draws))

\* The seeding specification: the application is started, again and again,
\* on the stores that creating and deleting categories leave.
NextSeed ==
    \/ \E draws \in RandomDraws : Seed(draws)
    \/ \E d \in CategoryCreateFew : CreateCategory(d)
    \/ \E id \in 1 .. Len(CATEGORIES) : DeleteCategory(id)
    \/ Finish
    \/ Tick

SpecSeed == Init /\ [][NextSeed]_vars

\* ------------------------------------------------------------- requests
\* Requests served side by side. A coroutine gives way at its awaits: a
\* service reads (its lookups), and later writes (await db.commit()), and
\* another request can run between the two. What a request read stays in
\* its session: the rows it loaded, the checks it passed.

\* What the lookups of a service hand on: the exception raised ("ok" when
\* the checks passed), the row loaded and the rows loaded along with it.
Looked(result, loaded, children) ==
    [result |-> result, loaded |-> loaded, children |-> children]

\* create_category up to db.add: the lookup by name.
create_category_lookup(cats, category_data) ==
    IF get_category_by_name(cats, category_data.name) # {}
    THEN Looked("Duplicate", {}, {})
    ELSE Looked("ok", {}, {})

\* create_expense up to db.add: the category is fetched, amount and date are
\* validated.
create_expense_lookup(cats, now, expense_data) ==
    IF db_get(cats, Val(expense_data.category_id)) = {}
    THEN Looked("NotFound", {}, {})
    ELSE IF Val(expense_data.amount) <= 0
    THEN Looked("Validation", {}, {})
    ELSE IF Val(expense_data.expense_date) > now
    THEN Looked("Validation", {}, {})
    ELSE Looked("ok", {}, {})

\* update_expense up to the setattr loop: the expense is loaded, the new
\* category is fetched, amount and date are validated.
update_expense_lookup(cats, exps, now, expense_id, update_data) ==
    LET found == db_get(exps, expense_id) IN
    IF found = {}
    THEN Looked("NotFound", {}, {})
    ELSE IF /\ "category_id" \in DOMAIN update_data
            /\ \/ update_data.category_id = None
               \/ db_get(cats, Val(update_data.category_id)) = {}
    THEN Looked("NotFound", {}, {})
    ELSE IF "amount" \in DOMAIN update_data /\ update_data.amount = None
    THEN Looked("TypeError", {}, {})
    ELSE IF "amount" \in DOMAIN update_data /\ Val(update_data.amount) <= 0
    THEN Looked("Validation", {}, {})
    ELSE IF "expense_date" \in DOMAIN update_data /\ update_data.expense_date = None
    THEN Looked("TypeError", {}, {})
    ELSE IF "expense_date" \in DOMAIN update_data /\ Val(update_data.expense_date) > now
    THEN Looked("Validation", {}, {})
    ELSE Looked("ok", found, {})

\* delete_category up to db.delete: the category is loaded, and with it
\* (lazy="selectin") the expenses it has at that moment.
delete_category_lookup(cats, exps, category_id) ==
    LET found == db_get(cats, category_id) IN
    IF found = {}
    THEN Looked("NotFound", {}, {})
    ELSE Looked("ok", found,
                Category_expenses(exps, CHOOSE c \in found : TRUE))

lookup(cats, exps, now, op, id, data) ==
    CASE op = "create_category" -> create_category_lookup(cats, data)
      [] op = "create_expense" -> create_expense_lookup(cats, now, data)
      [] op = "update_expense" -> update_expense_lookup(cats, exps, now, id, data)
      [] op = "delete_category" -> delete_category_lookup(cats, exps, id)

\* create_category from db.add on: INSERT and COMMIT.
create_category_write(cats, exps, category_data) ==
    commit(cats, exps, cats \cup {Category(NextId(cats), category_data)}, exps,
           NextId(cats))

\* create_expense from db.add on: INSERT and COMMIT.
create_expense_write(cats, exps, expense_data) ==
    commit(cats, exps, cats,
           exps \cup {Expense(NextId(exps), expense_data)}, NextId(exps))

\* update_expense from the setattr loop on: UPDATE ... WHERE id = ? of the
\* attributes whose value differs from the one loaded, and COMMIT. No UPDATE
\* is sent when nothing differs; an UPDATE that matches no row raises
\* StaleDataError.
update_expense_write(cats, exps, expense, update_data) ==
    LET changed == {f \in DOMAIN update_data : update_data[f] # expense[f]}
        row == db_get(exps, expense.id)
    IN  IF changed = {}
        THEN Outcome("ok", "", expense.id, cats, exps)
        ELSE IF row = {}
        THEN Raise(cats, exps, "StaleDataError", "", expense.id)
        ELSE commit(cats, exps, cats,
                    (exps \ row) \cup
                        {setattrs(r, Restrict(update_data, changed)) : r \in row},
                    expense.id)

\* delete_category from db.delete on: DELETE ... WHERE id = ? for each
\* expense loaded with the category, then for the category, and COMMIT. A
\* DELETE that matches no row is a warning only.
delete_category_write(cats, exps, category, loaded_expenses) ==
    commit(cats, exps,
           {c \in cats : c.id # category.id},
           {e \in exps : e.id \notin {x.id : x \in loaded_expenses}},
           category.id)

write(cats, exps, rq) ==
    CASE rq.op = "create_category" -> create_category_write(cats, exps, rq.data)
      [] rq.op = "create_expense" -> create_expense_write(cats, exps, rq.data)
      [] rq.op = "update_expense" ->
           update_expense_write(cats, exps, CHOOSE e \in rq.loaded : TRUE, rq.data)
      [] rq.op = "delete_category" ->
           delete_category_write(cats, exps, CHOOSE c \in rq.loaded : TRUE,
                                 rq.children)

\* Mutant: the session is committed whatever the handler did.
get_db_commit_always(pc) == "committed"

\* get_db past its yield: session.commit() when the handler returned,
\* session.rollback() and raise when it raised.
get_db(pc) == IF pc = "returned" THEN "committed" ELSE "rolled_back"

\* The payloads of the requests served side by side.
ExpenseUpdateCategory ==
    {u \in ExpenseUpdate : DOMAIN u = {"category_id"} /\ u.category_id # None}

\* A request arrives: get_db opens a session and the handler runs up to its
\* first write, or raises.
Begin(p, op, id, data) ==
    /\ LET r == lookup(categories, expenses, today, op, id, data) IN
       inflight' = [inflight EXCEPT ![p] =
                      [op |-> op, id |-> id, data |-> data,
                       pc |-> IF r.result = "ok" THEN "checked" ELSE "raised",
                       result |-> r.result, loaded |-> r.loaded,
                       children |-> r.children, gone |-> FALSE,
                       wrote |-> FALSE, session |-> "open"]]
    /\ UNCHANGED <<categories, expenses, today, last, old>>

BeginCreateCategory(p, category_data) ==
    /\ inflight[p] = Idle
    /\ Begin(p, "create_category", 0, category_data)

BeginCreateExpense(p, expense_data) ==
    /\ inflight[p] = Idle
    /\ Begin(p, "create_expense", 0, expense_data)

BeginUpdateExpense(p, expense_id, expense_data) ==
    /\ inflight[p] = Idle
    /\ Begin(p, "update_expense", expense_id, expense_data)

BeginDeleteCategory(p, category_id) ==
    /\ inflight[p] = Idle
    /\ Begin(p, "delete_category", category_id, <<>>)

\* await db.commit() of the service: the rows of the session are written to
\* the store as it is now, or the commit raises. gone records that the
\* category the request had checked was no longer stored at that moment,
\* wrote that the commit changed the store.
CommitWrite(p) ==
    /\ inflight[p].pc = "checked"
    /\ LET rq == inflight[p]
           r == write(categories, expenses, rq)
       IN /\ (rq.op = "create_category" /\ r.result = "ok") => r.id <= MaxCatId
          /\ (rq.op = "create_expense" /\ r.result = "ok") => r.id <= MaxExpId
          /\ categories' = r.categories
          /\ expenses' = r.expenses
          /\ inflight' = [inflight EXCEPT ![p] =
                [rq EXCEPT
                   !.pc = IF r.result = "ok" THEN "returned" ELSE "raised",
                   !.result = r.result,
                   !.id = r.id,
                   !.loaded = {},
                   !.children = {},
                   !.gone = /\ rq.op \in {"create_expense", "update_expense"}
                            /\ db_get(categories, Val(rq.data.category_id)) = {},
                   !.wrote = (r.categories # categories \/ r.expenses # expenses)]]
    /\ UNCHANGED <<today, last, old>>

\* The handler is over, get_db runs on: commit, or rollback and raise.
ExitGetDb(p) ==
    /\ inflight[p].pc \in {"returned", "raised"}
    /\ inflight' = [inflight EXCEPT ![p].pc = "exited",
                                    ![p].loaded = {},
                                    ![p].children = {},
                                    ![p].session = get_db(inflight[p].pc)]
    /\ UNCHANGED <<categories, expenses, today, last, old>>

\* finally: await session.close()
CloseSession(p) ==
    /\ inflight[p].pc = "exited"
    /\ inflight' = [inflight EXCEPT ![p] = Idle]
    /\ UNCHANGED <<categories, expenses, today, last, old>>

\* The specification of requests served side by side.
NextRequests ==
    \/ \E p \in Requests, d \in CategoryCreateQuery : BeginCreateCategory(p, d)
    \/ \E p \in Requests, d \in ExpenseCreateFew : BeginCreateExpense(p, d)
    \/ \E p \in Requests, id \in ExpenseIds, u \in ExpenseUpdateCategory :
          BeginUpdateExpense(p, id, u)
    \/ \E p \in Requests, id \in CategoryIds : BeginDeleteCategory(p, id)
    \/ \E p \in Requests : CommitWrite(p)
    \/ \E p \in Requests : ExitGetDb(p)
    \/ \E p \in Requests : CloseSession(p)

SpecRequests == Init /\ [][NextRequests]_vars

\* ------------------------------------------------------------- properties
\* The row of a table with a given primary key (there is one).
Row(table, id) == CHOOSE r \in table : r.id = id
Has(table, id) == \E r \in table : r.id = id
Unchanged == categories = old.categories /\ expenses = old.expenses

\* C1: after any sequence of create_category, update_category and
\* delete_category calls, successful or failed, no two stored categories
\* have the same name (compared exactly, case included).
C1_UniqueNames ==
    \A a, b \in categories : a.name = b.name => a = b

\* Two categories are stored, their names differ in case only, and a call
\* that would have made the names equal has just failed.
C1_Witness ==
    /\ last.op \in {"create_category", "update_category"}
    /\ last.result = "Duplicate"
    /\ {c.name : c \in categories} = {Some("Food"), Some("food")}

\* C2: create_category with the name of a stored category fails with
\* Duplicate whatever the other fields are, and leaves the store as it was,
\* with exactly one category of that name.
C2_CreateDuplicate ==
    (/\ last.op = "create_category"
     /\ \E c \in old.categories : c.name = last.data.name)
    => /\ last.result = "Duplicate"
       /\ Unchanged
       /\ Cardinality({c \in categories : c.name = last.data.name}) = 1

\* A create with a stored name and other fields that differ from the stored
\* row's.
C2_Witness ==
    /\ last.op = "create_category"
    /\ \E c \in old.categories :
          /\ c.name = last.data.name
          /\ c.description # last.data.description
          /\ c.color # last.data.color

\* C3: a successful delete_category(id) removes the category and every
\* expense whose category_id is id: afterwards no stored expense references it.
C3_DeleteCascades ==
    (last.op = "delete_category" /\ last.result = "ok")
    => /\ ~Has(categories, last.id)
       /\ \A e \in expenses : e.category_id # Some(last.id)

\* A category with two expenses has been deleted.
C3_Witness ==
    /\ last.op = "delete_category"
    /\ last.result = "ok"
    /\ Cardinality({e \in old.expenses : e.category_id = Some(last.id)}) = 2

\* C4: after any sequence of service calls, every stored expense has a
\* positive amount, a date not after today and the id of a stored category.
C4_ExpensesValid ==
    \A e \in expenses :
        /\ e.amount # None /\ Val(e.amount) > 0
        /\ e.expense_date # None /\ Val(e.expense_date) <= today
        /\ e.category_id # None /\ Has(categories, Val(e.category_id))

\* Time has passed, one of two categories has been deleted with its expense
\* and the expense of the other is still stored.
C4_Witness ==
    /\ today > 0
    /\ last.op = "delete_category"
    /\ last.result = "ok"
    /\ old.expenses # expenses
    /\ expenses # {}

\* C5: create_expense looks the category up before it checks the values: with
\* a category_id of no stored category it fails with NotFound, also when the
\* amount is not positive or the date is in the future; it fails with
\* Validation only when the category is stored.
C5_CategoryCheckedFirst ==
    last.op = "create_expense"
    => /\ ~Has(old.categories, Val(last.data.category_id))
            => last.result = "NotFound" /\ last.detail = "Category"
       /\ last.result = "Validation"
            => Has(old.categories, Val(last.data.category_id))

\* A create on a missing category with an amount that is not positive and a
\* date in the future.
C5_Witness ==
    /\ last.op = "create_expense"
    /\ ~Has(old.categories, Val(last.data.category_id))
    /\ Val(last.data.amount) <= 0
    /\ Val(last.data.expense_date) > today
    /\ last.result = "NotFound"

\* C6: create_expense with an amount <= 0 on a stored category fails with
\* Validation and persists no row: the stored expenses are the same before
\* and after the call.
C6_AmountNotPositive ==
    (/\ last.op = "create_expense"
     /\ Has(old.categories, Val(last.data.category_id))
     /\ Val(last.data.amount) <= 0)
    => /\ last.result = "Validation"
       /\ expenses = old.expenses
       /\ categories = old.categories

\* A create with amount 0 on a stored category, with an expense already stored.
C6_Witness ==
    /\ last.op = "create_expense"
    /\ Has(old.categories, Val(last.data.category_id))
    /\ Val(last.data.amount) = 0
    /\ old.expenses # {}

\* C7: create_expense on a stored category with a positive amount fails with
\* Validation exactly when the date is after today; a date equal to today is
\* accepted and the expense is persisted.
C7_FutureDate ==
    (/\ last.op = "create_expense"
     /\ Has(old.categories, Val(last.data.category_id))
     /\ Val(last.data.amount) > 0)
    => /\ last.result = "Validation" <=> Val(last.data.expense_date) > today
       /\ Val(last.data.expense_date) <= today
            => /\ last.result = "ok"
               /\ expenses = old.expenses \cup {Expense(last.id, last.data)}
               /\ ~Has(old.expenses, last.id)

\* An expense dated today has been created, on a day that is not the first.
C7_Witness ==
    /\ last.op = "create_expense"
    /\ last.result = "ok"
    /\ today > 0
    /\ last.data.expense_date = Some(today)

\* C8: update_expense on a stored expense with the id of no stored category
\* fails with NotFound and leaves every field of the expense as it was.
C8_UpdateMissingCategory ==
    (/\ last.op = "update_expense"
     /\ Has(old.expenses, last.id)
     /\ "category_id" \in DOMAIN last.data
     /\ last.data.category_id # None
     /\ ~Has(old.categories, Val(last.data.category_id)))
    => /\ last.result = "NotFound"
       /\ last.detail = "Category"
       /\ Has(expenses, last.id)
       /\ Row(expenses, last.id) = Row(old.expenses, last.id)

\* An update that sets a missing category and a new, valid amount.
C8_Witness ==
    /\ last.op = "update_expense"
    /\ Has(old.expenses, last.id)
    /\ DOMAIN last.data = {"category_id", "amount"}
    /\ last.data.category_id = Some(MissingId)
    /\ last.data.amount # None
    /\ Val(last.data.amount) > 0
    /\ last.data.amount # Row(old.expenses, last.id).amount

C10_UpdateDuplicate ==
    (last.op = "update_category" /\ Has(old.categories, last.id))
    => /\ last.result = "Duplicate"
            <=> /\ "name" \in DOMAIN last.data
                /\ \E c \in old.categories :
                      c.id # last.id /\ c.name = last.data.name
       /\ ("name" \in DOMAIN last.data
            /\ last.data.name = Row(old.categories, last.id).name)
            => last.result = "ok"

\* An update that provides the category's own name and a new description,
\* with another category stored.
C10_Witness ==
    /\ last.op = "update_category"
    /\ last.result = "ok"
    /\ Cardinality(old.categories) = 2
    /\ DOMAIN last.data = {"name", "description"}
    /\ last.data.name = Row(old.categories, last.id).name
    /\ last.data.description # Row(old.categories, last.id).description

\* A field of an update payload that is provided with a value (not null).
Given(data, f) == f \in DOMAIN data /\ data[f] # None

\* C11: update_expense checks the expense id (NotFound), then the category
\* (NotFound), then the amount (Validation), then the date (Validation), the
\* last three only for a field the payload provides: the first check that
\* fails decides the error, whatever the later fields hold, and a payload
\* without category_id, amount and expense_date fails neither with
\* Validation nor with NotFound on the category.
C11_UpdateCheckOrder ==
    last.op = "update_expense"
    => LET data == last.data
           stored == Has(old.expenses, last.id)
           category_ok ==
               "category_id" \in DOMAIN data
                   => /\ data.category_id # None
                      /\ Has(old.categories, Val(data.category_id))
           amount_bad == Given(data, "amount") /\ Val(data.amount) <= 0
           amount_ok == "amount" \in DOMAIN data
                            => data.amount # None /\ Val(data.amount) > 0
           date_bad == Given(data, "expense_date") /\ Val(data.expense_date) > today
       IN /\ ~stored => last.result = "NotFound" /\ last.detail = "Expense"
          /\ (stored /\ ~category_ok)
                => last.result = "NotFound" /\ last.detail = "Category"
          /\ (stored /\ category_ok /\ amount_bad)
                => last.result = "Validation" /\ last.detail = "amount"
          /\ (stored /\ category_ok /\ amount_ok /\ date_bad)
                => last.result = "Validation" /\ last.detail = "expense_date"
          /\ (last.result = "NotFound" /\ last.detail = "Category")
                => "category_id" \in DOMAIN data
          /\ (last.result = "Validation" /\ last.detail = "amount")
                => "amount" \in DOMAIN data
          /\ (last.result = "Validation" /\ last.detail = "expense_date")
                => "expense_date" \in DOMAIN data
          /\ last.result # "ok" => Unchanged

\* An update of a stored expense that sets a missing category and an amount
\* that is not positive: the category decides.
C11_Witness ==
    /\ last.op = "update_expense"
    /\ Has(old.expenses, last.id)
    /\ DOMAIN last.data = {"category_id", "amount"}
    /\ last.data.category_id = Some(MissingId)
    /\ Given(last.data, "amount")
    /\ Val(last.data.amount) <= 0
    /\ last.result = "NotFound"

\* C13: a successful delete_expense(id) removes exactly that expense: every
\* category and every other expense is unchanged.
C13_DeleteExpenseFrame ==
    (last.op = "delete_expense" /\ last.result = "ok")
    => /\ Has(old.expenses, last.id)
       /\ expenses = {e \in old.expenses : e.id # last.id}
       /\ categories = old.categories

\* One of two expenses of the same category has been deleted.
C13_Witness ==
    /\ last.op = "delete_expense"
    /\ last.result = "ok"
    /\ Cardinality(old.expenses) = 2
    /\ Cardinality({e.category_id : e \in old.expenses}) = 1
    /\ Cardinality(expenses) = 1

\* C12: every operation addressed by id (get_category_by_id, update_category,
\* delete_category, get_expense_by_id, update_expense, delete_expense) fails
\* with NotFound when no row with that id is stored, and leaves the store
\* unchanged; get_*_by_id returns the row with that id when it is stored.
C12_NotFoundById ==
    /\ (/\ last.op \in {"get_category_by_id", "update_category", "delete_category"}
        /\ ~Has(old.categories, last.id))
        => last.result = "NotFound" /\ last.detail = "Category" /\ Unchanged
    /\ (/\ last.op \in {"get_expense_by_id", "update_expense", "delete_expense"}
        /\ ~Has(old.expenses, last.id))
        => last.result = "NotFound" /\ last.detail = "Expense" /\ Unchanged
    /\ (last.op = "get_category_by_id" /\ Has(old.categories, last.id))
        => /\ last.result = "ok"
           /\ last.ret \in categories
           /\ last.ret.id = last.id
           /\ Unchanged
    /\ (last.op = "get_expense_by_id" /\ Has(old.expenses, last.id))
        => /\ last.result = "ok"
           /\ last.ret \in expenses
           /\ last.ret.id = last.id
           /\ Unchanged

\* A category has been asked for by an id that is not stored, while another
\* category is.
C12_Witness ==
    /\ last.op = "get_category_by_id"
    /\ last.result = "NotFound"
    /\ categories # {}

\* The number of times a row is in a list.
Count(rows, r) == Cardinality({i \in DOMAIN rows : rows[i] = r})
\* The rows of a list.
Range(rows) == {rows[i] : i \in DOMAIN rows}

\* C14: get_categories_with_expense_count returns every stored category
\* exactly once, each with the number of stored expenses whose category_id
\* is its id; a category without expenses is there with count 0.
C14_ExpenseCounts ==
    last.op = "get_categories_with_expense_count"
    => /\ last.result = "ok"
       /\ Len(last.ret) = Cardinality(categories)
       /\ \A c \in categories :
             Count(last.ret,
                   <<c, Cardinality({e \in expenses :
                                        e.category_id = Some(c.id)})>>) = 1

\* Two categories, one with two expenses and one with none.
C14_Witness ==
    /\ last.op = "get_categories_with_expense_count"
    /\ Cardinality(categories) = 2
    /\ \E i, j \in DOMAIN last.ret : last.ret[i][2] = 2 /\ last.ret[j][2] = 0

\* The amounts of the stored expenses, added up id by id.
RECURSIVE AmountUpTo(_)
AmountUpTo(id) ==
    IF id = 0 THEN 0
    ELSE AmountUpTo(id - 1)
         + (IF Has(expenses, id) THEN Val(Row(expenses, id).amount) ELSE 0)

\* C15: in every store state get_total_expense_amount returns the sum of the
\* amounts of all stored expenses, and 0, neither an error nor null, when
\* no expense is stored.
C15_TotalAmount ==
    last.op = "get_total_expense_amount"
    => /\ last.result = "ok"
       /\ last.ret = AmountUpTo(MaxExpId)
       /\ expenses = {} => last.ret = 0

\* The total of two expenses of different amounts.
C15_Witness ==
    /\ last.op = "get_total_expense_amount"
    /\ {e.amount : e \in expenses} = {Some(1000), Some(2550)}
    /\ last.ret = 3550

\* C16: get_expenses_by_category(c) returns exactly the stored expenses whose
\* category_id is c, and an empty result, no error, when c is the id of no
\* stored category or of a category without expenses.
C16_ByCategory ==
    last.op = "get_expenses_by_category"
    => /\ last.result = "ok"
       /\ Range(last.ret) = {e \in expenses : e.category_id = Some(last.id)}
       /\ \A e \in expenses : Count(last.ret, e) <= 1
       /\ (\/ ~Has(categories, last.id)
           \/ \A e \in expenses : e.category_id # Some(last.id))
          => last.ret = <<>>

\* The expenses of an id that no category has, asked for while expenses of
\* a stored category exist.
C16_Witness ==
    /\ last.op = "get_expenses_by_category"
    /\ last.id = MissingId
    /\ expenses # {}
    /\ last.result = "ok"

\* C17: get_expenses_by_date_range(start, end) returns exactly the stored
\* expenses with start <= expense_date <= end, both bounds included, and an
\* empty result when start is after end.
C17_ByDateRange ==
    last.op = "get_expenses_by_date_range"
    => /\ last.result = "ok"
       /\ Range(last.ret) =
              {e \in expenses : /\ last.data.start_date <= Val(e.expense_date)
                                /\ Val(e.expense_date) <= last.data.end_date}
       /\ \A e \in expenses : Count(last.ret, e) <= 1
       /\ last.data.start_date > last.data.end_date => last.ret = <<>>

\* A range whose first day is the date of one stored expense and whose last
\* day is the date of another: both are returned.
C17_Witness ==
    /\ last.op = "get_expenses_by_date_range"
    /\ last.data.start_date < last.data.end_date
    /\ Len(last.ret) = 2
    /\ {Val(e.expense_date) : e \in Range(last.ret)}
          = {last.data.start_date, last.data.end_date}

\* A text contains another as a substring.
Contains(text, part) ==
    \E i \in 0 .. (Len(text) - Len(part)) :
        SubSeq(text, i + 1, i + Len(part)) = part

\* C18: search_expenses(keyword) returns exactly the stored expenses whose
\* description contains the keyword as a substring, letter case ignored; an
\* expense that has the keyword in its notes only is not returned.
C18_SearchSubstring ==
    last.op = "search_expenses"
    => /\ last.result = "ok"
       /\ Range(last.ret) =
              {e \in expenses :
                  Contains(lower(Val(e.description)), lower(last.data.keyword))}
       /\ \A e \in expenses : Count(last.ret, e) <= 1

Min(a, b) == IF a <= b THEN a ELSE b

\* C19: for a store of N expenses, get_all_expenses(skip, limit) returns
\* min(limit, max(0, N - skip)) expenses, and the pages 1, 2, ... of
\* GET /api/expenses/ of a given size are pairwise disjoint and together
\* hold every stored expense exactly once (stated where page 1 has just
\* been read, for the store it was read from).
C19_Pagination ==
    /\ last.op = "get_all_expenses"
        => /\ last.result = "ok"
           /\ Len(last.ret) =
                  Min(last.data.limit,
                      Max({0, Cardinality(expenses) - last.data.skip}))
    /\ (/\ last.op = "get_all_expenses"
        /\ last.data.skip = 0
        /\ last.data.limit \in Sizes)
        => LET size == last.data.limit
               page(n) == get_all_expenses_page(categories, expenses, n, size).ret
           IN /\ last.ret = page(1)
              /\ \A m, n \in Pages :
                    m # n => Range(page(m)) \cap Range(page(n)) = {}
              /\ \A e \in expenses :
                    \E n \in Pages :
                       /\ Count(page(n), e) = 1
                       /\ \A m \in Pages \ {n} : Count(page(m), e) = 0
              /\ \A n \in Pages : Range(page(n)) \subseteq expenses

\* Two expenses are stored and the second page of size 1 has been read
\* (skip 1, limit 1): it holds the expense with the larger id.
C19_Witness ==
    /\ last.op = "get_all_expenses"
    /\ Cardinality(expenses) = 2
    /\ last.data.skip = 1
    /\ last.data.limit = 1
    /\ Len(last.ret) = 1
    /\ \A e \in expenses : e.id <= last.ret[1].id

\* C20: a successful create_category or create_expense adds exactly one row,
\* returns it with an id that no other row of that table has, and a get by
\* that id then returns the field values that were given to create.
C20_CreateThenGet ==
    /\ (last.op = "create_category" /\ last.result = "ok")
        => LET got == get_category_by_id(categories, expenses, last.id) IN
           /\ ~Has(old.categories, last.id)
           /\ old.categories \subseteq categories
           /\ Cardinality(categories) = Cardinality(old.categories) + 1
           /\ expenses = old.expenses
           /\ got.result = "ok"
           /\ \A c \in categories \ {got.ret} : c.id # last.id
           /\ \A f \in CategoryFields : got.ret[f] = last.data[f]
    /\ (last.op = "create_expense" /\ last.result = "ok")
        => LET got == get_expense_by_id(categories, expenses, last.id) IN
           /\ ~Has(old.expenses, last.id)
           /\ old.expenses \subseteq expenses
           /\ Cardinality(expenses) = Cardinality(old.expenses) + 1
           /\ categories = old.categories
           /\ got.result = "ok"
           /\ \A e \in expenses \ {got.ret} : e.id # last.id
           /\ \A f \in ExpenseFields : got.ret[f] = last.data[f]

\* An expense with notes has been created next to a stored expense that has
\* the same values in every column but the id.
C20_Witness ==
    /\ last.op = "create_expense"
    /\ last.result = "ok"
    /\ last.data.notes # None
    /\ \E e \in old.expenses : \A f \in ExpenseFields : e[f] = last.data[f]

\* C25: for every payload ExpenseUpdate accepts (each field unset, null or
\* a valid value), update_expense on a stored expense succeeds or fails with
\* NotFound or Validation, and with no other kind of error.
C25_UpdateDomainErrors ==
    (last.op = "update_expense" /\ Has(old.expenses, last.id))
    => last.result \in {"ok", "NotFound", "Validation"}

\* C29: a successful delete_category(id) leaves every other category, and
\* every expense whose category_id is not id, unchanged in the store.
C29_DeleteCategoryFrame ==
    (last.op = "delete_category" /\ last.result = "ok")
    => /\ {c \in categories : c.id # last.id}
            = {c \in old.categories : c.id # last.id}
       /\ {e \in expenses : e.category_id # Some(last.id)}
            = {e \in old.expenses : e.category_id # Some(last.id)}

\* One of two categories has been deleted; each of them had an expense.
C29_Witness ==
    /\ last.op = "delete_category"
    /\ last.result = "ok"
    /\ Cardinality(old.categories) = 2
    /\ \A c \in old.categories :
          \E e \in old.expenses : e.category_id = Some(c.id)

\* C24: /api/expenses/recent returns the most recent expenses: no expense
\* left out is both recorded later (a greater id) and dated later than an
\* expense returned.
C24_RecentAreNewest ==
    last.op = "get_recent_expenses"
    => \A e \in Range(last.ret), o \in expenses \ Range(last.ret) :
          e.id > o.id \/ Val(e.expense_date) >= Val(o.expense_date)

\* C23: PaginatedResponse.create computes pages as the ceiling of
\* total / size for total >= 0 and size in 1..100: the least number of pages
\* of that size that hold total items, 0 when total is 0, and one more than
\* the full pages when total is not a multiple of size.
C23_PagesCeiling ==
    (/\ last.op = "PaginatedResponse.create"
     /\ last.data.page >= 1
     /\ last.data.size \in 1 .. 100)
    => /\ last.result = "ok"
       /\ LET total == last.data.total
              size == last.data.size
              n == last.ret.pages
          IN /\ n * size >= total
             /\ (n - 1) * size < total
             /\ total = 0 => n = 0
             /\ total % size # 0 => n = (total \div size) + 1
             /\ total % size = 0 => n = total \div size

\* 25 items in pages of 10 make 3 pages (the case of the repository's test).
C23_Witness ==
    /\ last.op = "PaginatedResponse.create"
    /\ last.result = "ok"
    /\ last.data.total = 25
    /\ last.data.size = 10
    /\ last.ret.pages = 3

\* C26: the web category edit form submitted for a stored category with
\* some fields omitted leaves each omitted field with the value stored
\* before the request.
C26_WebFormKeepsOmitted ==
    (last.op = "web_update_category" /\ Has(old.categories, last.id))
    => \A f \in CategoryFields \ DOMAIN last.data :
          Row(categories, last.id)[f] = Row(old.categories, last.id)[f]

\* C22: seeding is idempotent: seed_database on a store that holds at least
\* one category returns without changing anything, so a second run in a row
\* leaves the store as the first run left it.
C22_SeedIdempotent ==
    (last.op = "seed_database" /\ old.categories # {})
    => last.result = "ok" /\ Unchanged

\* Seeding has run on the store an earlier seeding filled.
C22_Witness ==
    /\ last.op = "seed_database"
    /\ last.result = "ok"
    /\ Cardinality(old.categories) = 6
    /\ Cardinality(old.expenses) = 20
    /\ Unchanged

\* C30: after seed_database on a store without categories, the store holds
\* exactly the 6 sample categories, with pairwise distinct names, and
\* between 15 and 20 expenses, each with an amount above 0, a date between
\* 29 days ago and today and the category_id of a seeded category.
C30_SeedResult ==
    (last.op = "seed_database" /\ old.categories = {})
    => /\ last.result = "ok"
       /\ Cardinality(categories) = 6
       /\ {Val(c.name) : c \in categories}
            = {"Food", "Transport", "Entertainment", "Shopping", "Bills",
               "Health"}
       /\ \A a, b \in categories : a.name = b.name => a = b
       /\ Cardinality(expenses) \in 15 .. 20
       /\ \A e \in expenses :
             /\ Val(e.amount) > 0
             /\ Val(e.expense_date) >= today - 29
             /\ Val(e.expense_date) <= today
             /\ \E c \in categories : e.category_id = Some(c.id)

\* Seeding has filled a store without categories: 20 expenses, one of them
\* dated today and one dated 29 days ago.
C30_Witness ==
    /\ last.op = "seed_database"
    /\ old.categories = {}
    /\ Cardinality(expenses) = 20
    /\ \E e \in expenses : Val(e.expense_date) = today
    /\ \E e \in expenses : Val(e.expense_date) = today - 29

\* C21: for every request, the session get_db handed out is committed
\* when the handler has finished without raising; when the handler has
\* raised, the session is rolled back and the same exception goes on to the
\* caller, and nothing the request did has changed the store; in both cases
\* the next thing that happens to the session is that it is closed.
C21_SessionProtocol ==
    [][\A p \in Requests :
          LET rq == inflight[p]
              nx == inflight'[p]
          IN  /\ nx.pc = "idle" => nx.session = "closed"
              /\ nx.pc \in {"checked", "returned", "raised"}
                    => nx.session = "open"
              /\ nx.pc = "raised" => ~nx.wrote
              /\ nx.pc = "exited"
                    => /\ nx.result = "ok" => nx.session = "committed"
                       /\ nx.result # "ok"
                             => nx.session = "rolled_back" /\ ~nx.wrote
              /\ (nx # rq /\ rq.pc = "returned")
                    => nx.pc = "exited" /\ nx.session = "committed"
              /\ (nx # rq /\ rq.pc = "raised")
                    => /\ nx.pc = "exited"
                       /\ nx.session = "rolled_back"
                       /\ nx.result = rq.result
              /\ (nx # rq /\ rq.pc = "exited") => nx = Idle]_vars

\* One request has been rolled back after its commit raised, another has
\* been committed after writing a row.
C21_Witness ==
    \E p, q \in Requests :
        /\ inflight[p].pc = "exited"
        /\ inflight[p].result = "IntegrityError"
        /\ inflight[p].session = "rolled_back"
        /\ inflight[q].pc = "exited"
        /\ inflight[q].wrote
        /\ inflight[q].session = "committed"

\* C27: when two create_category requests for the same name have both run
\* the lookup by name before either commits, the commit of the second does
\* not write its row while the row of the first is stored: the store never
\* holds two categories of one name.
C27_InterleavedCreate ==
    [][/\ \A a, b \in categories' : a.name = b.name => a.id = b.id
       /\ \A p, q \in Requests :
             (/\ p # q
              /\ inflight[p].op = "create_category"
              /\ inflight[p].pc = "checked"
              /\ inflight[q].op = "create_category"
              /\ inflight[q].wrote
              /\ inflight[p].data.name = inflight[q].data.name
              /\ \E c \in categories : c.name = inflight[q].data.name)
             => ~inflight'[p].wrote]_vars

\* Both requests found the name free; the commit of one wrote the row, the
\* commit of the other was refused by the unique index.
C27_Witness ==
    \E p, q \in Requests :
        /\ inflight[p].op = "create_category"
        /\ inflight[q].op = "create_category"
        /\ inflight[p].data.name = inflight[q].data.name
        /\ inflight[p].wrote
        /\ inflight[q].result = "IntegrityError"
        /\ Cardinality(categories) = 1

\* C28: when a create_expense, or an update_expense that changes
\* category_id, has checked category C before delete_category(C) committed
\* and has committed its write after it, no expense that references C is left
\* in the store.
C28_NoDanglingExpense ==
    \A p \in Requests :
        (/\ inflight[p].op \in {"create_expense", "update_expense"}
         /\ inflight[p].pc = "returned"
         /\ inflight[p].gone)
        => \A e \in expenses : e.category_id # inflight[p].data.category_id

====
